---- MODULE Spec2Model ----
(***************************************************************************)
(* Model of lagaris_02_tf_adam.py: training of a one-hidden-layer network  *)
(* on the lagaris02 ODE IVP with the trial solution y = x*N(x) and Adam.   *)
(*                                                                         *)
(* Numbers.  A float32 is modelled as a fixed-point number: the integer a  *)
(* stands for a/SCALE.  The finite range is -FMAX..FMAX; a result outside  *)
(* it overflows to PINF or NINF, and NAN is the IEEE not-a-number value.   *)
(* Arithmetic follows IEEE 754 on the special values (inf - inf, 0 * inf,  *)
(* 0 / 0 are NAN; every comparison with NAN is false).                     *)
(*                                                                         *)
(* Configuration.  H, nt and n_epochs are the constants of __main__, taken *)
(* small.  A run is started with a learning rate and a seed out of         *)
(* LearningRates and Seeds, and with an equation that exposes any          *)
(* combination of the analytic solution Ya and derivative dYa_dx.          *)
(***************************************************************************)
EXTENDS Integers, Sequences, FiniteSets, TLC

\* Fixed-point scale: a stands for a/SCALE.
SCALE == 1000
\* Largest finite magnitude (float32 max, scaled down).
FMAX == 46000

PINF == FMAX + 1
NINF == -(FMAX + 1)
NAN == FMAX + 2

ONE == SCALE

IsNaN(a) == a = NAN
IsInf(a) == a = PINF \/ a = NINF
IsFinite(a) == a >= -FMAX /\ a <= FMAX

\* Sign of a non-NAN value, 0 counted as positive (IEEE +0).
Sgn(a) == IF a < 0 THEN -1 ELSE 1

\* Integer division rounding to nearest (IEEE round-to-nearest), b > 0.
RDiv(a, b) == IF a >= 0 THEN (a + b \div 2) \div b ELSE -((-a + b \div 2) \div b)

\* Overflow of an exact result to the infinities.
Norm(r) == IF r > FMAX THEN PINF ELSE IF r < -FMAX THEN NINF ELSE r

FNeg(a) == IF IsNaN(a) THEN NAN ELSE -a

FAdd(a, b) ==
    IF IsNaN(a) \/ IsNaN(b) THEN NAN
    ELSE IF IsInf(a) /\ IsInf(b) THEN (IF a = b THEN a ELSE NAN)
    ELSE IF IsInf(a) THEN a
    ELSE IF IsInf(b) THEN b
    ELSE Norm(a + b)

FSub(a, b) == FAdd(a, FNeg(b))

FMul(a, b) ==
    IF IsNaN(a) \/ IsNaN(b) THEN NAN
    ELSE IF IsInf(a) \/ IsInf(b)
         THEN (IF a = 0 \/ b = 0 THEN NAN
               ELSE IF Sgn(a) = Sgn(b) THEN PINF ELSE NINF)
    ELSE Norm(RDiv(a * b, SCALE))

FDiv(a, b) ==
    IF IsNaN(a) \/ IsNaN(b) THEN NAN
    ELSE IF IsInf(a) THEN (IF IsInf(b) THEN NAN
                           ELSE IF Sgn(a) = Sgn(b) THEN PINF ELSE NINF)
    ELSE IF IsInf(b) THEN 0
    ELSE IF b = 0 THEN (IF a = 0 THEN NAN ELSE IF a > 0 THEN PINF ELSE NINF)
    ELSE IF b > 0 THEN Norm(RDiv(a * SCALE, b))
    ELSE Norm(-RDiv(a * SCALE, -b))

\* a >= b as IEEE compares: false when either side is NAN.
FGe(a, b) == ~IsNaN(a) /\ ~IsNaN(b) /\ a >= b

RECURSIVE ISqrtIn(_, _, _)
\* Bisection: lo*lo <= n < hi*hi.
ISqrtIn(n, lo, hi) ==
    IF hi - lo <= 1 THEN lo
    ELSE LET mid == (lo + hi) \div 2
         IN  IF mid * mid <= n THEN ISqrtIn(n, mid, hi) ELSE ISqrtIn(n, lo, mid)

\* Largest s with s*s <= n, for 0 <= n < 2^31.
ISqrt(n) == ISqrtIn(n, 0, 46341)

FSqrt(a) ==
    IF IsNaN(a) \/ a < 0 THEN NAN
    ELSE IF a = PINF THEN PINF
    ELSE ISqrt(a * SCALE)

\* A value given in thousandths, rounded to the fixed-point grid.
Milli(k) == RDiv(k * SCALE, 1000)

\* Logistic sigmoid at the integers 0..8, in thousandths.
SigmoidTable == <<500, 731, 881, 953, 982, 993, 998, 999, 1000>>

\* Sigmoid of a finite z >= 0: linear between the tabulated values.
SigmoidPos(z) ==
    LET i == z \div SCALE
        f == z % SCALE
    IN  IF i >= 8 THEN ONE
        ELSE Milli(SigmoidTable[i + 1]
                   + RDiv((SigmoidTable[i + 2] - SigmoidTable[i + 1]) * f, SCALE))

\* tf.keras.activations.sigmoid
Sigmoid(z) ==
    IF IsNaN(z) THEN NAN
    ELSE IF z = PINF THEN ONE
    ELSE IF z = NINF THEN 0
    ELSE IF z >= 0 THEN SigmoidPos(z)
    ELSE ONE - SigmoidPos(-z)

\* exp(-k) at the integers k = 0..7, in thousandths.
ExpTable == <<1000, 368, 135, 50, 18, 7, 2, 1, 0>>

\* exp of a finite z <= 0: linear between the tabulated values.
ExpNeg(z) ==
    LET i == (-z) \div SCALE
        f == (-z) % SCALE
    IN  IF i >= 8 THEN 0
        ELSE Milli(ExpTable[i + 1]
                   + RDiv((ExpTable[i + 2] - ExpTable[i + 1]) * f, SCALE))

\* tf.math.exp
FExp(z) ==
    IF IsNaN(z) THEN NAN
    ELSE IF z = PINF THEN PINF
    ELSE IF z = NINF THEN 0
    ELSE IF z <= 0 THEN ExpNeg(z)
    ELSE FDiv(ONE, ExpNeg(-z))

\* pi in fixed point.
PI == Milli(3142)

\* cos on 0..pi/2 by its Taylor polynomial 1 - a^2/2 + a^4/24 - a^6/720.
CosQuarter(a) ==
    LET a2 == RDiv(a * a, SCALE)
        a4 == RDiv(a2 * a2, SCALE)
        a6 == RDiv(a4 * a2, SCALE)
    IN  ONE - RDiv(a2, 2) + RDiv(a4, 24) - RDiv(a6, 720)

\* tf.math.cos: argument reduced to 0..pi, NAN at the infinities.
FCos(z) ==
    IF ~IsFinite(z) THEN NAN
    ELSE LET a == (IF z < 0 THEN -z ELSE z) % (2 * PI)
             b == IF a > PI THEN 2 * PI - a ELSE a
         IN  IF 2 * b <= PI THEN CosQuarter(b) ELSE -CosQuarter(PI - b)

\* Number of hidden nodes (10 in the program).
H == 2
\* Number of training points (11 in the program).
nt == 3
\* Number of training epochs (1000 in the program).
n_epochs == 2

\* The configurations: learning rates (0.01, and one at the top of the float
\* range) and random number generator seeds.
LearningRates == {Milli(10), FMAX}
Seeds == {0, 1}

Units == 1..H
Points == 1..nt

RECURSIVE FSumTo(_, _)
FSumTo(s, n) == IF n = 0 THEN 0 ELSE FAdd(FSumTo(s, n - 1), s[n])

\* tf.reduce_sum, and the sum over the hidden units in a matrix product.
FSum(s) == FSumTo(s, Len(s))

\* create_training_grid(nt): nt evenly spaced points on [0, 1].
create_training_data(n) == [i \in 1..n |-> RDiv((i - 1) * SCALE, n - 1)]

\* Glorot-uniform limit sqrt(6 / (fan_in + fan_out)) of a Dense kernel
\* between 1 input and h units (and between h units and 1 output).
GlorotLimit(h) == ISqrt(RDiv(6 * SCALE * SCALE, 1 + h))

\* The k-th draw of the generator seeded with s, uniform on -lim..lim.
Draw(s, k, lim) == (((s * 53 + k * 97 + 11) * 61) % (2 * lim + 1)) - lim

\* Initial weights of the two Dense layers under seed s: kernels drawn
\* Glorot-uniform, bias zero.
InitialWeights(s) ==
    [w |-> [h \in Units |-> Draw(s, h, GlorotLimit(H))],
     u |-> [h \in Units |-> 0],
     v |-> [h \in Units |-> Draw(s, H + h, GlorotLimit(H))]]

\* Pre-activation of hidden unit h at the point xi.
Z(th, xi, h) == FAdd(FMul(th.w[h], xi), th.u[h])

\* First and second derivative of the sigmoid from its value s.
Sigmoid1(s) == FMul(s, FSub(ONE, s))
Sigmoid2(s) == FMul(Sigmoid1(s), FSub(ONE, FMul(2 * ONE, s)))

\* model(x) at one point: sigmoid hidden layer, linear output without bias.
Network(th, xi) ==
    FSum([h \in Units |-> FMul(th.v[h], Sigmoid(Z(th, xi, h)))])

\* dN/dx at one point.
NetworkDx(th, xi) ==
    FSum([h \in Units |->
            FMul(FMul(th.v[h], th.w[h]), Sigmoid1(Sigmoid(Z(th, xi, h))))])

\* A trial solution that leaves out the factor x.
TrialSolutionWithoutX(xi, Ni) == Ni

\* Trial solution y = x*N.
TrialSolution(xi, Ni) == FMul(xi, Ni)

\* tape1.gradient(y, x) at one point: d(x*N)/dx = N + x*dN/dx.
TrialDerivative(th, xi) == FAdd(Network(th, xi), FMul(xi, NetworkDx(th, xi)))

\* G = dy_dx + y/5 - exp(-x/5)*cos(x)
Residual(dydx, yi, xi) ==
    FSub(FAdd(dydx, FDiv(yi, 5 * ONE)),
         FMul(FExp(FDiv(FNeg(xi), 5 * ONE)), FCos(xi)))

\* L = tf.reduce_sum(G**2)
Loss(G) == FSum([i \in 1..Len(G) |-> FMul(G[i], G[i])])

\* The residuals of the parameters th at the points x.
ResidualsOf(th, x) ==
    [i \in 1..Len(x) |->
        Residual(TrialDerivative(th, x[i]),
                 TrialSolution(x[i], Network(th, x[i])), x[i])]

\* dG_i/dp from dN_i/dp and d(dN_i/dx)/dp, G_i = (1 + x_i/5)*N_i + x_i*dN_i/dx.
ResidualDp(xi, dN, dNx) ==
    FAdd(FMul(FAdd(ONE, FDiv(xi, 5 * ONE)), dN), FMul(xi, dNx))

\* dG_i/dp for p the parameter of hidden unit h in the tensor name.
ResidualGrad(name, th, xi, h) ==
    LET s  == Sigmoid(Z(th, xi, h))
        s1 == Sigmoid1(s)
        s2 == Sigmoid2(s)
        vw == FMul(th.v[h], th.w[h])
    IN  CASE name = "v" -> ResidualDp(xi, s, FMul(th.w[h], s1))
          [] name = "u" -> ResidualDp(xi, FMul(th.v[h], s1), FMul(vw, s2))
          [] name = "w" -> ResidualDp(xi, FMul(FMul(th.v[h], s1), xi),
                                      FAdd(FMul(th.v[h], s1),
                                           FMul(FMul(vw, s2), xi)))

\* model.trainable_variables: hidden kernel, hidden bias, output kernel.
TrainableVariables == {"w", "u", "v"}

\* tape2.gradient(L, model.trainable_variables): dL/dp = sum_i 2*G_i*dG_i/dp,
\* from the parameters and points the tape recorded in the forward pass.
Gradient(th, x) ==
    LET G == ResidualsOf(th, x)
    IN  [name \in TrainableVariables |->
            [h \in Units |->
                FSum([i \in 1..Len(x) |->
                        FMul(FMul(2 * ONE, G[i]),
                             ResidualGrad(name, th, x[i], h))])]]

\* np.hstack((w, u, v)): the flattened parameter vector.
Flatten(th) == th.w \o th.u \o th.v

\* The parameter tensors of a flattened vector.
Unflatten(p) ==
    [w |-> SubSeq(p, 1, H), u |-> SubSeq(p, H + 1, 2 * H),
     v |-> SubSeq(p, 2 * H + 1, 3 * H)]

\* Analytic solution and derivative of lagaris_02, the optional
\* capabilities ode1ivp.Ya and ode1ivp.dYa_dx: Ya = exp(-x/5)*sin(x).
FSin(z) == FCos(FSub(z, RDiv(PI, 2)))
AnalyticYa(xi) == FMul(FExp(FDiv(FNeg(xi), 5 * ONE)), FSin(xi))
AnalyticdYa_dx(xi) ==
    FMul(FExp(FDiv(FNeg(xi), 5 * ONE)),
         FSub(FCos(xi), FDiv(FSin(xi), 5 * ONE)))

\* Adam hyperparameters (Keras defaults); epsilon = 1e-7 is below the
\* fixed-point resolution and is represented by the smallest positive value.
Beta1 == Milli(900)
Beta2 == Milli(999)
Epsilon == 1

RECURSIVE FPow(_, _)
FPow(b, t) == IF t = 0 THEN ONE ELSE FMul(FPow(b, t - 1), b)

\* The second moment is an average of squared gradients; it is held at the
\* resolution of a square, in units of 1/SCALE^2, so that (1 - beta2)*g^2 is
\* not rounded away.  It is never negative: VINF and VNAN are its infinity
\* and not-a-number.
VINF == -1
VNAN == -2

\* First moment estimate after a gradient g.
AdamM(m, g) == FAdd(FMul(Beta1, m), FMul(FSub(ONE, Beta1), g))

\* Second moment estimate after a gradient g: v + (1 - beta2)*(g^2 - v).
AdamV(v, g) ==
    IF v = VNAN \/ IsNaN(g) THEN VNAN
    ELSE IF v = VINF \/ IsInf(g) THEN VINF
    ELSE LET k == RDiv(SCALE, ONE - Beta2)
         IN  v - RDiv(v, k) + RDiv(g * g, k)

\* sqrt(v_hat) = sqrt(v / (1 - beta2^t)) as a fixed-point number.
SqrtVHat(v, t) ==
    IF v = VNAN THEN NAN
    ELSE IF v = VINF THEN PINF
    ELSE FDiv(Norm(ISqrt(v)), FSqrt(FSub(ONE, FPow(Beta2, t))))

\* The parameter after step t: p - lr * m_hat / (sqrt(v_hat) + epsilon).
AdamVar(p, m1, v1, t, lr) ==
    LET m_hat == FDiv(m1, FSub(ONE, FPow(Beta1, t)))
    IN  FSub(p, FMul(lr, FDiv(m_hat, FAdd(SqrtVHat(v1, t), Epsilon))))

\* tf.keras.optimizers.Adam(learning_rate): step counter and moments at zero.
NewOptimizer ==
    [iterations |-> 0,
     m |-> [name \in TrainableVariables |-> [h \in Units |-> 0]],
     v |-> [name \in TrainableVariables |-> [h \in Units |-> 0]]]

\* One Adam step of the tensors in names, with the gradients g.
AdamStep(th, g, o, lr, names) ==
    LET t  == o.iterations + 1
        m1 == [name \in TrainableVariables |->
                 [h \in Units |->
                    IF name \in names THEN AdamM(o.m[name][h], g[name][h])
                    ELSE o.m[name][h]]]
        v1 == [name \in TrainableVariables |->
                 [h \in Units |->
                    IF name \in names THEN AdamV(o.v[name][h], g[name][h])
                    ELSE o.v[name][h]]]
        p1 == [name \in TrainableVariables |->
                 [h \in Units |->
                    IF name \in names
                    THEN AdamVar(th[name][h], m1[name][h], v1[name][h], t, lr)
                    ELSE th[name][h]]]
    IN  [theta |-> [w |-> p1["w"], u |-> p1["u"], v |-> p1["v"]],
         optimizer |-> [iterations |-> o.iterations, m |-> m1, v |-> v1]]

\* An update that steps w and u first and takes the gradient of v afresh,
\* from the parameters already stepped.
apply_gradients_stale(th, x, g, o, lr) ==
    LET first  == AdamStep(th, g, o, lr, {"w", "u"})
        second == AdamStep(first.theta, Gradient(first.theta, x),
                           first.optimizer, lr, {"v"})
    IN  [theta |-> second.theta,
         xtv |-> x,
         optimizer |-> [iterations |-> o.iterations + 1,
                        m |-> second.optimizer.m, v |-> second.optimizer.v]]

\* An update that also steps the training points down the loss.
apply_gradients_with_x(th, x, g, o, lr) ==
    LET r == AdamStep(th, g, o, lr, TrainableVariables)
    IN  [theta |-> r.theta,
         xtv |-> [i \in 1..Len(x) |-> FSub(x[i], Milli(10))],
         optimizer |-> [iterations |-> o.iterations + 1,
                        m |-> r.optimizer.m, v |-> r.optimizer.v]]

\* optimizer.apply_gradients(zip(grad, model.trainable_variables)): one Adam
\* step of every trainable tensor with its gradient g[name]; the step counter
\* advances once.  The training points x are no trainable variable of the
\* model and are not assigned.
apply_gradients(th, x, g, o, lr) ==
    LET r == AdamStep(th, g, o, lr, TrainableVariables)
    IN  [theta |-> r.theta,
         xtv |-> x,
         optimizer |-> [iterations |-> o.iterations + 1,
                        m |-> r.optimizer.m, v |-> r.optimizer.v]]

VARIABLES
    pc,            \* the statement of __main__ about to run
    learning_rate, \* configuration: learning rate
    random_seed,   \* configuration: random number generator seed
    ode1ivp,       \* the equation: which analytic functions it exposes
    seed,          \* the global TensorFlow seed, Unseeded until set
    xt,            \* training points (numpy array)
    xtv,           \* training points (tf.Variable); x names the same Variable
    built,         \* whether the layers have created their weights
    theta,         \* model.trainable_variables: w, u, v
    optimizer,     \* Adam state: iterations, m, v
    epoch,         \* loop variable, -1 before the loop
    tape,          \* what the gradient tapes recorded in the forward pass
    N, y, dy_dx, G, L, grad,
    losses, phist, \* history variables
    Yt, dYt_dx, Ya, dYa_dx, Y_err, dY_dx_err,
    files,         \* names of the files written to the output directory
    completed      \* results of the runs of the program completed before

vars == <<pc, learning_rate, random_seed, ode1ivp, seed, xt, xtv, built, theta,
          optimizer, epoch, tape, N, y, dy_dx, G, L, grad, losses, phist,
          Yt, dYt_dx, Ya, dYa_dx, Y_err, dY_dx_err, files, completed>>

\* The global seed before tf.random.set_seed is called.
Unseeded == -1

\* A set_seed that leaves the global seed unset.
set_seed_ignored(s) == Unseeded

\* tf.random.set_seed(random_seed): the global seed becomes random_seed.
set_seed(s) == s

\* The seeds the initializers may draw from: the global seed when it is set,
\* any seed (entropy of the process) when it is not.
InitializerSeeds(g) == IF g = Unseeded THEN Seeds ELSE {g}

\* build_model(H): the layers exist, their weights are created at the first call.
NoWeights == [w |-> <<>>, u |-> <<>>, v |-> <<>>]

\* The statements of __main__ in program order: before the loop (ending at
\* the loop head), the loop body (ending back at the loop head), and after
\* the loop.
Setup == <<"create_data", "build_model", "set_seed", "create_optimizer", "loop">>
LoopBody == <<"forward", "residual", "loss", "save_loss", "backward",
              "save_params", "update", "loop">>
Finalize == <<"save_phist", "trained", "analytic_Ya", "analytic_dYa_dx",
              "error_Y", "error_dY_dx", "done">>

\* Whether p is a statement of the block with a statement after it, and
\* that statement.
Within(block, p) == \E i \in 1..(Len(block) - 1) : block[i] = p
After(block, p) == block[(CHOOSE i \in 1..(Len(block) - 1) : block[i] = p) + 1]

\* The statement that follows p when the loop body is body.
Follow(body, p) ==
    IF Within(Setup, p) THEN After(Setup, p)
    ELSE IF Within(body, p) THEN After(body, p)
    ELSE After(Finalize, p)

\* A loop body that saves the current loss only after the update.
SuccessorLossSavedLast(p) ==
    Follow(<<"forward", "residual", "loss", "backward", "save_params",
             "update", "save_loss", "loop">>, p)

\* A loop body that saves the parameters after the update instead of before.
SuccessorParamsSavedAfterUpdate(p) ==
    Follow(<<"forward", "residual", "loss", "save_loss", "backward",
             "update", "save_params", "loop">>, p)

\* A loop body that never saves the parameters.
SuccessorParamsNotSaved(p) ==
    Follow(<<"forward", "residual", "loss", "save_loss", "backward",
             "update", "loop">>, p)

\* The statement that follows p in __main__ (the loop head decides for itself).
Successor(p) == Follow(LoopBody, p)

\* The state at the start of a run of the program.
Fresh ==
    /\ pc = "create_data"
    /\ seed = Unseeded
    /\ xt = <<>> /\ xtv = <<>>
    /\ built = FALSE /\ theta = NoWeights
    /\ optimizer = [iterations |-> 0, m |-> <<>>, v |-> <<>>]
    /\ epoch = -1
    /\ tape = [theta |-> NoWeights, x |-> <<>>]
    /\ N = <<>> /\ y = <<>> /\ dy_dx = <<>> /\ G = <<>> /\ L = 0
    /\ grad = [name \in TrainableVariables |-> <<>>]
    /\ losses = <<>> /\ phist = <<>>
    /\ Yt = <<>> /\ dYt_dx = <<>> /\ Ya = <<>> /\ dYa_dx = <<>>
    /\ Y_err = <<>> /\ dY_dx_err = <<>>
    /\ files = {}

Init ==
    /\ learning_rate \in LearningRates
    /\ random_seed \in Seeds
    /\ ode1ivp \in [Ya : BOOLEAN, dYa_dx : BOOLEAN]
    /\ completed = <<>>
    /\ Fresh

\* xt = create_training_data(nt); np.savetxt(training_points.dat); xtv = tf.Variable(xt)
CreateData ==
    /\ pc = "create_data"
    /\ xt' = create_training_data(nt)
    /\ xtv' = xt'
    /\ files' = files \cup {"training_points.dat"}
    /\ pc' = Successor(pc)
    /\ UNCHANGED <<learning_rate, random_seed, ode1ivp, seed, built, theta,
                   optimizer, epoch, tape, N, y, dy_dx, G, L, grad, losses,
                   phist, Yt, dYt_dx, Ya, dYa_dx, Y_err, dY_dx_err, completed>>

\* ode1ivp = ODE1IVP(eq_module); model = build_model(H); losses = []; phist = []
BuildModel ==
    /\ pc = "build_model"
    /\ built' = FALSE
    /\ theta' = NoWeights
    /\ losses' = <<>>
    /\ phist' = <<>>
    /\ pc' = Successor(pc)
    /\ UNCHANGED <<learning_rate, random_seed, ode1ivp, seed, xt, xtv,
                   optimizer, epoch, tape, N, y, dy_dx, G, L, grad,
                   Yt, dYt_dx, Ya, dYa_dx, Y_err, dY_dx_err, files, completed>>

\* tf.random.set_seed(random_seed)
SetSeed ==
    /\ pc = "set_seed"
    /\ seed' = set_seed(random_seed)
    /\ pc' = Successor(pc)
    /\ UNCHANGED <<learning_rate, random_seed, ode1ivp, xt, xtv, built, theta,
                   optimizer, epoch, tape, N, y, dy_dx, G, L, grad, losses,
                   phist, Yt, dYt_dx, Ya, dYa_dx, Y_err, dY_dx_err, files,
                   completed>>

\* x = xtv; optimizer = tf.keras.optimizers.Adam(learning_rate=learning_rate)
CreateOptimizer ==
    /\ pc = "create_optimizer"
    /\ optimizer' = NewOptimizer
    /\ pc' = Successor(pc)
    /\ UNCHANGED <<learning_rate, random_seed, ode1ivp, seed, xt, xtv, built,
                   theta, epoch, tape, N, y, dy_dx, G, L, grad, losses, phist,
                   Yt, dYt_dx, Ya, dYa_dx, Y_err, dY_dx_err, files, completed>>

\* for epoch in range(n_epochs):
LoopHead ==
    /\ pc = "loop"
    /\ IF epoch + 1 < n_epochs
       THEN epoch' = epoch + 1 /\ pc' = "forward"
       ELSE epoch' = epoch /\ pc' = "save_phist"
    /\ UNCHANGED <<learning_rate, random_seed, ode1ivp, seed, xt, xtv, built,
                   theta, optimizer, tape, N, y, dy_dx, G, L, grad, losses,
                   phist, Yt, dYt_dx, Ya, dYa_dx, Y_err, dY_dx_err, files,
                   completed>>

\* N = model(x); y = x*N, recorded by tape1 and tape2.  The first call of the
\* model creates the weights of its layers.
Forward ==
    /\ pc = "forward"
    /\ \E s \in InitializerSeeds(seed) :
          theta' = IF built THEN theta ELSE InitialWeights(s)
    /\ built' = TRUE
    /\ N' = [i \in Points |-> Network(theta', xtv[i])]
    /\ y' = [i \in Points |-> TrialSolution(xtv[i], N'[i])]
    /\ tape' = [theta |-> theta', x |-> xtv]
    /\ pc' = Successor(pc)
    /\ UNCHANGED <<learning_rate, random_seed, ode1ivp, seed, xt, xtv,
                   optimizer, epoch, dy_dx, G, L, grad, losses, phist,
                   Yt, dYt_dx, Ya, dYa_dx, Y_err, dY_dx_err, files, completed>>

\* dy_dx = tape1.gradient(y, x); G = dy_dx + y/5 - tf.math.exp(-x/5)*tf.math.cos(x)
ComputeResidual ==
    /\ pc = "residual"
    /\ dy_dx' = [i \in Points |-> TrialDerivative(tape.theta, tape.x[i])]
    /\ G' = [i \in Points |-> Residual(dy_dx'[i], y[i], xtv[i])]
    /\ pc' = Successor(pc)
    /\ UNCHANGED <<learning_rate, random_seed, ode1ivp, seed, xt, xtv, built,
                   theta, optimizer, epoch, tape, N, y, L, grad, losses, phist,
                   Yt, dYt_dx, Ya, dYa_dx, Y_err, dY_dx_err, files, completed>>

\* L = tf.reduce_sum(G**2)
ComputeLoss ==
    /\ pc = "loss"
    /\ L' = Loss(G)
    /\ pc' = Successor(pc)
    /\ UNCHANGED <<learning_rate, random_seed, ode1ivp, seed, xt, xtv, built,
                   theta, optimizer, epoch, tape, N, y, dy_dx, G, grad, losses,
                   phist, Yt, dYt_dx, Ya, dYa_dx, Y_err, dY_dx_err, files,
                   completed>>

\* losses.append(L.numpy())
SaveLoss ==
    /\ pc = "save_loss"
    /\ losses' = Append(losses, L)
    /\ pc' = Successor(pc)
    /\ UNCHANGED <<learning_rate, random_seed, ode1ivp, seed, xt, xtv, built,
                   theta, optimizer, epoch, tape, N, y, dy_dx, G, L, grad,
                   phist, Yt, dYt_dx, Ya, dYa_dx, Y_err, dY_dx_err, files,
                   completed>>

\* grad = tape2.gradient(L, model.trainable_variables)
Backward ==
    /\ pc = "backward"
    /\ grad' = Gradient(tape.theta, tape.x)
    /\ pc' = Successor(pc)
    /\ UNCHANGED <<learning_rate, random_seed, ode1ivp, seed, xt, xtv, built,
                   theta, optimizer, epoch, tape, N, y, dy_dx, G, L, losses,
                   phist, Yt, dYt_dx, Ya, dYa_dx, Y_err, dY_dx_err, files,
                   completed>>

\* phist.append(np.hstack((w, u, v)))
SaveParams ==
    /\ pc = "save_params"
    /\ phist' = Append(phist, Flatten(theta))
    /\ pc' = Successor(pc)
    /\ UNCHANGED <<learning_rate, random_seed, ode1ivp, seed, xt, xtv, built,
                   theta, optimizer, epoch, tape, N, y, dy_dx, G, L, grad,
                   losses, Yt, dYt_dx, Ya, dYa_dx, Y_err, dY_dx_err, files,
                   completed>>

\* optimizer.apply_gradients(zip(grad, model.trainable_variables))
Update ==
    /\ pc = "update"
    /\ LET r == apply_gradients(theta, xtv, grad, optimizer, learning_rate)
       IN  /\ theta' = r.theta
           /\ xtv' = r.xtv
           /\ optimizer' = r.optimizer
    /\ pc' = Successor(pc)
    /\ UNCHANGED <<learning_rate, random_seed, ode1ivp, seed, xt, built,
                   epoch, tape, N, y, dy_dx, G, L, grad, losses, phist,
                   Yt, dYt_dx, Ya, dYa_dx, Y_err, dY_dx_err, files, completed>>

\* The conditions of the four optional steps: if ode1ivp.Ya / if ode1ivp.dYa_dx.
SolutionGate(e) == e.Ya
DerivativeGate(e) == e.dYa_dx
SolutionErrorGateOnDerivative(e) == e.dYa_dx
SolutionErrorGate(e) == e.Ya
DerivativeErrorGate(e) == e.dYa_dx

\* np.savetxt(phist.dat, np.array(phist))
SavePhist ==
    /\ pc = "save_phist"
    /\ files' = files \cup {"phist.dat"}
    /\ pc' = Successor(pc)
    /\ UNCHANGED <<learning_rate, random_seed, ode1ivp, seed, xt, xtv, built,
                   theta, optimizer, epoch, tape, N, y, dy_dx, G, L, grad,
                   losses, phist, Yt, dYt_dx, Ya, dYa_dx, Y_err, dY_dx_err,
                   completed>>

\* N = model(xtv); dN_dx = tape.gradient(N, xtv); Yt = xtv*N;
\* dYt_dx = xtv*dN_dx + N; both saved.
TrainedSolution ==
    /\ pc = "trained"
    /\ N' = [i \in Points |-> Network(theta, xtv[i])]
    /\ Yt' = [i \in Points |-> TrialSolution(xtv[i], N'[i])]
    /\ dYt_dx' = [i \in Points |->
                    FAdd(FMul(xtv[i], NetworkDx(theta, xtv[i])), N'[i])]
    /\ files' = files \cup {"Yt.dat", "dYt_dx.dat"}
    /\ pc' = Successor(pc)
    /\ UNCHANGED <<learning_rate, random_seed, ode1ivp, seed, xt, xtv, built,
                   theta, optimizer, epoch, tape, y, dy_dx, G, L, grad,
                   losses, phist, Ya, dYa_dx, Y_err, dY_dx_err, completed>>

\* if ode1ivp.Ya: Ya = [ode1ivp.Ya(x) for x in xt]; saved
AnalyticSolution ==
    /\ pc = "analytic_Ya"
    /\ IF SolutionGate(ode1ivp)
       THEN /\ Ya' = [i \in 1..Len(xt) |-> AnalyticYa(xt[i])]
            /\ files' = files \cup {"Ya.dat"}
       ELSE UNCHANGED <<Ya, files>>
    /\ pc' = Successor(pc)
    /\ UNCHANGED <<learning_rate, random_seed, ode1ivp, seed, xt, xtv, built,
                   theta, optimizer, epoch, tape, N, y, dy_dx, G, L, grad,
                   losses, phist, Yt, dYt_dx, dYa_dx, Y_err, dY_dx_err,
                   completed>>

\* if ode1ivp.dYa_dx: dYa_dx = [ode1ivp.dYa_dx(x) for x in xt]; saved
AnalyticDerivative ==
    /\ pc = "analytic_dYa_dx"
    /\ IF DerivativeGate(ode1ivp)
       THEN /\ dYa_dx' = [i \in 1..Len(xt) |-> AnalyticdYa_dx(xt[i])]
            /\ files' = files \cup {"dYa_dx.dat"}
       ELSE UNCHANGED <<dYa_dx, files>>
    /\ pc' = Successor(pc)
    /\ UNCHANGED <<learning_rate, random_seed, ode1ivp, seed, xt, xtv, built,
                   theta, optimizer, epoch, tape, N, y, dy_dx, G, L, grad,
                   losses, phist, Yt, dYt_dx, Ya, Y_err, dY_dx_err, completed>>

\* if ode1ivp.Ya: Y_err = Yt - Ya; saved.  Ya is unbound when the analytic
\* solution was not computed: reading it raises NameError.
SolutionError ==
    /\ pc = "error_Y"
    /\ IF SolutionErrorGate(ode1ivp)
       THEN IF Ya = <<>>
            THEN pc' = "NameError" /\ UNCHANGED <<Y_err, files>>
            ELSE /\ Y_err' = [i \in Points |-> FSub(Yt[i], Ya[i])]
                 /\ files' = files \cup {"Y_err.dat"}
                 /\ pc' = Successor(pc)
       ELSE pc' = Successor(pc) /\ UNCHANGED <<Y_err, files>>
    /\ UNCHANGED <<learning_rate, random_seed, ode1ivp, seed, xt, xtv, built,
                   theta, optimizer, epoch, tape, N, y, dy_dx, G, L, grad,
                   losses, phist, Yt, dYt_dx, Ya, dYa_dx, dY_dx_err, completed>>

\* if ode1ivp.dYa_dx: dY_dx_err = dYt_dx - dYa_dx; saved
DerivativeError ==
    /\ pc = "error_dY_dx"
    /\ IF DerivativeErrorGate(ode1ivp)
       THEN IF dYa_dx = <<>>
            THEN pc' = "NameError" /\ UNCHANGED <<dY_dx_err, files>>
            ELSE /\ dY_dx_err' = [i \in Points |-> FSub(dYt_dx[i], dYa_dx[i])]
                 /\ files' = files \cup {"dY_dx_err.dat"}
                 /\ pc' = Successor(pc)
       ELSE pc' = Successor(pc) /\ UNCHANGED <<dY_dx_err, files>>
    /\ UNCHANGED <<learning_rate, random_seed, ode1ivp, seed, xt, xtv, built,
                   theta, optimizer, epoch, tape, N, y, dy_dx, G, L, grad,
                   losses, phist, Yt, dYt_dx, Ya, dYa_dx, Y_err, completed>>

\* The program is run again, in a new process, with some configuration; the
\* loss history and final parameters of the completed run are kept aside.
RunAgain ==
    /\ pc = "done"
    /\ completed = <<>>
    /\ completed' = <<[learning_rate |-> learning_rate,
                       random_seed |-> random_seed,
                       losses |-> losses, theta |-> theta]>>
    /\ learning_rate' \in LearningRates
    /\ random_seed' \in Seeds
    /\ pc' = "create_data"
    /\ seed' = Unseeded
    /\ xt' = <<>> /\ xtv' = <<>>
    /\ built' = FALSE /\ theta' = NoWeights
    /\ optimizer' = [iterations |-> 0, m |-> <<>>, v |-> <<>>]
    /\ epoch' = -1
    /\ tape' = [theta |-> NoWeights, x |-> <<>>]
    /\ N' = <<>> /\ y' = <<>> /\ dy_dx' = <<>> /\ G' = <<>> /\ L' = 0
    /\ grad' = [name \in TrainableVariables |-> <<>>]
    /\ losses' = <<>> /\ phist' = <<>>
    /\ Yt' = <<>> /\ dYt_dx' = <<>> /\ Ya' = <<>> /\ dYa_dx' = <<>>
    /\ Y_err' = <<>> /\ dY_dx_err' = <<>>
    /\ files' = {}
    /\ UNCHANGED ode1ivp

Next ==
    \/ CreateData
    \/ BuildModel
    \/ SetSeed
    \/ CreateOptimizer
    \/ LoopHead
    \/ Forward
    \/ ComputeResidual
    \/ ComputeLoss
    \/ SaveLoss
    \/ Backward
    \/ SaveParams
    \/ Update
    \/ SavePhist
    \/ TrainedSolution
    \/ AnalyticSolution
    \/ AnalyticDerivative
    \/ SolutionError
    \/ DerivativeError
    \/ RunAgain

Spec == Init /\ [][Next]_vars

(***************************************************************************)
(* Properties.                                                             *)
(***************************************************************************)

\* The statements after the loop.
AfterLoop == {Finalize[i] : i \in 1..Len(Finalize)}

\* Whether every value of the sequence s is finite.
AllFinite(s) == \A i \in 1..Len(s) : IsFinite(s[i])

\* C1: at the loop head after k completed epochs (k = epoch + 1, for every k
\* in 0..n_epochs) the loss history and the parameter history both have
\* exactly k entries, and once the loop has ended both have n_epochs entries.
C1_HistoryLengths ==
    /\ pc = "loop" => Len(losses) = epoch + 1 /\ Len(phist) = epoch + 1
    /\ pc \in AfterLoop => Len(losses) = n_epochs /\ Len(phist) = n_epochs

\* A run that completed all epochs, with a non-finite loss among them.
C1_Witness ==
    /\ pc = "done"
    /\ Len(losses) = n_epochs /\ Len(phist) = n_epochs
    /\ ~AllFinite(losses)

\* C2: a non-finite loss in epoch k (the k+1-th entry of the loss history)
\* aborts the run: the update of epoch k is not applied, no later epoch
\* runs, and phist.dat is not written.
C2_NonFiniteLossAborts ==
    \A i \in 1..Len(losses) :
        ~IsFinite(losses[i]) =>
            /\ optimizer.iterations <= i - 1
            /\ epoch <= i - 1
            /\ "phist.dat" \notin files

\* What one update must be: the step counter advances once, and every
\* element of every trainable tensor takes one Adam step whose gradient is
\* the gradient of the loss at the parameters before the update.
OneAdamStepFromPreUpdate ==
    LET g == Gradient(theta, xtv)
    IN  /\ optimizer'.iterations = optimizer.iterations + 1
        /\ \A name \in TrainableVariables : \A h \in Units :
              /\ optimizer'.m[name][h] = AdamM(optimizer.m[name][h], g[name][h])
              /\ optimizer'.v[name][h] = AdamV(optimizer.v[name][h], g[name][h])
              /\ theta'[name][h] =
                    AdamVar(theta[name][h], optimizer'.m[name][h],
                            optimizer'.v[name][h], optimizer'.iterations,
                            learning_rate)

\* C3: every update applies one Adam step to each of w, u and v, all three
\* with gradients taken at the same pre-update parameters, and after k
\* completed epochs the optimizer step counter equals k.
C3_UpdateOncePerTensor ==
    /\ [](pc = "loop" => optimizer.iterations = epoch + 1)
    /\ [][pc = "update" => OneAdamStepFromPreUpdate]_vars

\* The last update has been applied and has changed all three tensors.
C3_Witness ==
    /\ pc = "loop"
    /\ epoch + 1 = n_epochs
    /\ optimizer.iterations = n_epochs
    /\ \A name \in TrainableVariables :
          theta[name] # Unflatten(phist[n_epochs])[name]

\* C4 as stated: the loss and the parameter snapshot of an epoch are appended
\* only after that epoch's update, so neither history is ever longer than
\* the number of updates applied.
C4_RecordAfterUpdate ==
    /\ Len(losses) <= optimizer.iterations
    /\ Len(phist) <= optimizer.iterations

\* C4 amended: in epoch k the statements run in the order forward, residual,
\* loss, save loss, backward, save parameters, update: the loss and the
\* snapshot are appended before the update of their epoch, and the
\* statements after the loop run only after the update of the last epoch.
C4_RecordBeforeUpdate ==
    /\ pc \in {"forward", "residual", "loss", "save_loss"} =>
          /\ Len(losses) = epoch /\ Len(phist) = epoch
          /\ optimizer.iterations = epoch
    /\ pc \in {"backward", "save_params"} =>
          /\ Len(losses) = epoch + 1 /\ Len(phist) = epoch
          /\ optimizer.iterations = epoch
          /\ losses[epoch + 1] = L /\ L = Loss(G)
    /\ pc = "update" =>
          /\ Len(losses) = epoch + 1 /\ Len(phist) = epoch + 1
          /\ optimizer.iterations = epoch
    /\ pc \in AfterLoop =>
          /\ optimizer.iterations = n_epochs
          /\ Len(losses) = n_epochs /\ Len(phist) = n_epochs

\* The last epoch has saved its loss and parameters and not yet updated.
C4_Witness ==
    /\ pc = "update"
    /\ epoch + 1 = n_epochs
    /\ Len(losses) = n_epochs /\ Len(phist) = n_epochs
    /\ optimizer.iterations = n_epochs - 1

\* The statements of the program; each runs whenever control is at it.
Statements ==
    {Setup[i] : i \in 1..Len(Setup)} \cup {LoopBody[i] : i \in 1..Len(LoopBody)}
        \cup AfterLoop

\* C5: each optional output is gated on its own capability: at the end of
\* the run the analytic solution and the solution error are produced iff the
\* equation exposes Ya, the analytic derivative and the derivative error iff
\* it exposes dYa_dx; for every combination of capabilities control stays on
\* the statements of the program and never ends in an exception.
C5_IndependentGating ==
    /\ pc \in Statements
    /\ pc # "NameError"
    /\ pc = "done" =>
          /\ ("Ya.dat" \in files) <=> ode1ivp.Ya
          /\ ("Y_err.dat" \in files) <=> ode1ivp.Ya
          /\ (Ya # <<>>) <=> ode1ivp.Ya
          /\ (Y_err # <<>>) <=> ode1ivp.Ya
          /\ ("dYa_dx.dat" \in files) <=> ode1ivp.dYa_dx
          /\ ("dY_dx_err.dat" \in files) <=> ode1ivp.dYa_dx
          /\ (dYa_dx # <<>>) <=> ode1ivp.dYa_dx
          /\ (dY_dx_err # <<>>) <=> ode1ivp.dYa_dx

\* A finished run of an equation with the analytic derivative only.
C5_Witness ==
    /\ pc = "done"
    /\ ~ode1ivp.Ya /\ ode1ivp.dYa_dx
    /\ files = {"training_points.dat", "phist.dat", "Yt.dat", "dYt_dx.dat",
                "dYa_dx.dat", "dY_dx_err.dat"}

\* C6: once created, the training points never change: no statement of the
\* loop and no statement after it assigns xt or xtv, and the points the tape
\* recorded are those points.
C6_CollocationFixed ==
    /\ [][pc # "create_data" /\ pc' # "create_data" => xtv' = xtv /\ xt' = xt]_vars
    /\ [](pc # "create_data" => Len(xtv) = nt /\ xtv = xt)
    /\ [](tape.x # <<>> => tape.x = xt)

\* A finished run that applied every update, with its nt points in place.
C6_Witness ==
    /\ pc = "done"
    /\ optimizer.iterations = n_epochs
    /\ Len(xtv) = nt /\ xtv = xt /\ xtv[1] = 0 /\ xtv[nt] = ONE

C8_LossNonNegative == \A i \in 1..Len(losses) : FGe(losses[i], 0)

\* The statements at which y is the trial solution of the current N.
TrialInStep == {"residual", "loss", "save_loss", "backward", "save_params",
                "update", "loop", "save_phist", "trained"}

\* C9 as stated: the trial solution at the first training point, x = 0, is 0
\* in every epoch and after training, whatever the parameters.
C9_TrialZeroAtOrigin ==
    /\ y # <<>> => xtv[1] = 0 /\ y[1] = 0
    /\ Yt # <<>> => xtv[1] = 0 /\ Yt[1] = 0

\* C9 amended: at x = 0 the trial solution is 0 whenever the network output
\* there is finite, in every epoch and after training; when the network
\* output at 0 is not finite the trial solution there is NaN.
C9_TrialZeroAtOriginWhenFinite ==
    /\ (y # <<>> /\ pc \in TrialInStep) =>
          /\ xtv[1] = 0
          /\ IsFinite(N[1]) => y[1] = 0
          /\ ~IsFinite(N[1]) => IsNaN(y[1])
    /\ Yt # <<>> =>
          /\ xtv[1] = 0
          /\ IsFinite(N[1]) => Yt[1] = 0
          /\ ~IsFinite(N[1]) => IsNaN(Yt[1])

\* After an update the network output at x = 0 is finite and not 0, and the
\* trial solution there is 0.
C9_Witness ==
    /\ pc = "residual"
    /\ epoch >= 1
    /\ IsFinite(N[1]) /\ N[1] # 0
    /\ y[1] = 0

\* The parameter tensors are one Adam step from the snapshot p.
SteppedFrom(p) ==
    \A name \in TrainableVariables : \A h \in Units :
        theta[name][h] =
            AdamVar(Unflatten(p)[name][h], optimizer.m[name][h],
                    optimizer.v[name][h], optimizer.iterations, learning_rate)

\* C10: the k-th parameter snapshot is the parameter vector the k-th loss
\* was computed from: the first is the initial parameter vector, each is
\* saved before the update of its epoch, the parameters after an update are
\* one step from the last snapshot (and are the next snapshot saved), and
\* the final parameters, the result of the last update, are saved in no
\* entry: the history ends with the snapshot before the last update.
C10_SnapshotBeforeUpdate ==
    /\ \A k \in 1..Len(phist) :
          /\ k <= Len(losses)
          /\ losses[k] = Loss(ResidualsOf(Unflatten(phist[k]), xtv))
    /\ Len(phist) >= 1 => phist[1] = Flatten(InitialWeights(random_seed))
    /\ Len(phist) = optimizer.iterations + 1 => phist[Len(phist)] = Flatten(theta)
    /\ (Len(phist) >= 1 /\ Len(phist) = optimizer.iterations) =>
          SteppedFrom(phist[Len(phist)])
    /\ Len(phist) \in {optimizer.iterations, optimizer.iterations + 1}
    /\ pc \in AfterLoop => Len(phist) = optimizer.iterations

\* A finished run whose final parameters differ from every snapshot.
C10_Witness ==
    /\ pc = "done"
    /\ Len(phist) = n_epochs
    /\ phist[1] = Flatten(InitialWeights(random_seed))
    /\ \A k \in 1..Len(phist) : phist[k] # Flatten(theta)
====
